---- MODULE Spec2Model ----
(***************************************************************************)
(* The Dazzle session of strudelcover: one instance of class Dazzle, its   *)
(* console-error handler (local repair / retry by regeneration), the       *)
(* generatePattern request, the autoplay install, and the multi-pass       *)
(* refinement pipeline (gestalt -> kaizen -> surgery).                     *)
(*                                                                         *)
(* Node runs the class on one event loop.  Every action below is one run   *)
(* to completion between two suspension points (an await of the completion *)
(* service, of a browser action, or a timer).  Pending timers are counted  *)
(* per callback; operations suspended at an await are kept in bags, one    *)
(* element per suspended call.                                             *)
(***************************************************************************)
EXTENDS Integers, Naturals, Sequences, FiniteSets, Bags, TLC

VARIABLES
    started,          \* start() has run
    page,             \* this.page is set (browser launched)
    currentArtist,    \* this.currentArtist / this.currentSong (set together)
    retryCount,       \* this.retryCount
    lastError,        \* this.lastError
    pattern,          \* this.pattern: 0 is null, otherwise the id of a text
    songStructure,    \* this.songStructure: NULL or the name of the structure
    currentMode,      \* this.currentMode
    editor,           \* content of the live environment's editor
    retryTimers,      \* pending setTimeout(retryWithErrorFeedback, 2000)
    autoplayTimers,   \* pending setTimeout(autoplay, 3000)
    refineTimers,     \* pending setTimeout(startMultiPassRefinement, 10000)
    gens,             \* generatePattern calls suspended at an await
    autoplays,        \* autoplay() calls suspended at an await
    repairs,          \* tryRemoveTrailingParen() calls suspended at an await
    pipes,            \* refinement pipelines (position of each)
    errorsSeen,       \* runtime errors the handler has accepted so far
    requested,        \* the top-level generatePattern has been issued
    regenCalls,       \* generatePattern calls issued by retryWithErrorFeedback
    parenSeen,        \* a trailing-parenthesis error has been reported
    playOK,           \* an autoplay has installed the pattern and clicked play
    clicked,          \* a click on the play control has succeeded
    stopped,          \* stop() has been called
    closed,           \* stop() has closed the browser and the servers
    lastSent,         \* data of the last `pattern` message broadcast, 0 if none
    recordTimers,     \* pending setTimeout(autoplayStarted + startRecording, 1000)
    isRecording,      \* this.isRecording
    recordProcess,    \* this.recordProcess is set
    captures,         \* capture processes running
    timeoutLive,      \* the timer this.recordingTimeout refers to is pending
    autoStops,        \* pending 30 s auto-stop timers
    starts,           \* startRecording() calls suspended at an await
    stops,            \* stopRecording() calls suspended at an await
    lastRecMsg,       \* type of the last recording message broadcast
    lastReq,          \* the last recording call made: "start" or "stop"
    audio,            \* what exists for this.audioFilename: a file, a logged note
    messages,         \* messages received from observers so far
    clients,          \* this.wss.clients: the state of each observer's connection
    inbox,            \* the messages each observer has received
    response,         \* a response text of the completion service
    extracted,        \* what extractCode returned for it
    sectionKeys,      \* the keys of an object held as this.songStructure
    targets           \* what identifySurgeryTargets returned for it

\* the fields of the instance
session == <<started, page, currentArtist, songStructure, currentMode>>
\* the retry bookkeeping
retry   == <<retryCount, lastError, retryTimers, regenCalls>>
\* the pattern and where it is installed
texts   == <<pattern, editor>>
\* suspended operations and their timers
ops     == <<autoplayTimers, refineTimers, gens, autoplays, repairs, pipes>>
\* history of the run
hist    == <<errorsSeen, requested, parenSeen, playOK, clicked>>

\* shutdown
life    == <<stopped, closed>>
\* the recording controller
rec     == <<recordTimers, isRecording, recordProcess, captures, timeoutLive,
             autoStops, starts, stops, lastRecMsg, lastReq, audio, messages>>

\* the broadcast channel
chan    == <<clients, inbox>>
\* a completion response and the code taken from it, a structure object and
\* the surgery targets derived from it
parse   == <<response, extracted, sectionKeys, targets>>

vars == <<session, retry, texts, ops, hist, life, lastSent, rec, chan, parse>>

NULL == "null"

(* ------------------------------ bounds -------------------------------- *)
MaxBurst == 5         \* runtime errors reported in SpecBurst
MaxErrors == 2        \* runtime errors reported in SpecRetry
MaxRefineErrors == 1  \* runtime errors reported in Spec
MaxBrowserErrors == 1 \* runtime errors reported in SpecBrowser
MaxReports == 4       \* runtime errors reported in SpecReport

(* ----------------------------- constants ------------------------------ *)
maxRetries == 3

(* ------------------------- console error texts ------------------------ *)
ParenError == "SyntaxError: Unexpected token ')'"
KickError  == "ReferenceError: kick is not defined"
LoadNote   == "Failed to load resource: net::ERR_FAILED"

ConsoleTexts == {ParenError, KickError, LoadNote}

\* String.prototype.includes on the texts above, for the needles the code uses
Includes(text, needle) ==
    needle \in (CASE text = ParenError -> {"SyntaxError", "Error", "Unexpected token", ")"}
                  [] text = KickError  -> {"Error"}
                  [] OTHER             -> {})

\* the handler's filter: text.includes('SyntaxError') || text.includes('Error')
IsReportedError(text) == Includes(text, "SyntaxError") \/ Includes(text, "Error")

\* the signature without its ')' alternative
IsTrailingParenErrorWordOnly(text) ==
    /\ Includes(text, "Unexpected token")
    /\ Includes(text, "paren")

\* text.includes('Unexpected token') && (text.includes(')') || text.includes('paren'))
IsTrailingParenError(text) ==
    /\ Includes(text, "Unexpected token")
    /\ (Includes(text, ")") \/ Includes(text, "paren"))

(* --------------------------- song structures -------------------------- *)
Artists == {"The Beatles", "Pink Floyd"}
\* with an artist of the electronic structure
AllArtists == Artists \cup {"Grimes"}

\* commonStructures: the keys of each structure
commonStructures(name) ==
    CASE name = "electronic" ->
           {"intro", "drop1", "breakdown1", "buildup1", "drop2", "breakdown2",
            "buildup2", "drop3", "outro"}
      [] name = "rock" ->
           {"intro", "verse1", "prechorus1", "chorus1", "verse2", "prechorus2",
            "chorus2", "solo", "bridge", "chorus3"}
      [] name = "pop" ->
           {"intro", "verse1", "chorus1", "verse2", "chorus2", "bridge",
            "chorus3", "outro"}
      [] OTHER -> {}

\* the structure getSongStructure chooses for the artist
StructureOf(artist) ==
    CASE artist = "Grimes"     -> "electronic"
      [] artist = "Pink Floyd" -> "rock"
      [] OTHER                 -> "pop"

sections == <<"intro", "verse", "chorus", "bridge", "outro">>

\* the filter taken by section kind: verse1 counts for verse, chorus2 for
\* chorus
availableSectionsByKind(struct) ==
    LET Kind(k) == CASE k \in {"verse1", "verse2"} -> "verse"
                     [] k \in {"chorus1", "chorus2", "chorus3"} -> "chorus"
                     [] OTHER -> k
    IN  SelectSeq(sections,
                  LAMBDA s : \E k \in commonStructures(struct) : Kind(k) = s)

\* sections.filter(s => this.songStructure[s])
availableSections(struct) ==
    SelectSeq(sections, LAMBDA s : s \in commonStructures(struct))

\* the target list with the transition target added when a verse or a
\* chorus exists
surgeryTargetsEither(keys) ==
    (IF "verse" \in keys \/ "chorus" \in keys THEN <<"transition">> ELSE <<>>)
    \o <<"drums">>
    \o (IF "intro" \in keys THEN <<"hook">> ELSE <<>>)
    \o <<"melody">>
    \o (IF "outro" \in keys THEN <<"effects">> ELSE <<>>)

\* identifySurgeryTargets() for a songStructure with these keys: the types of
\* the targets pushed, in order
surgeryTargets(keys) ==
    (IF "verse" \in keys /\ "chorus" \in keys THEN <<"transition">> ELSE <<>>)
    \o <<"drums">>
    \o (IF "intro" \in keys THEN <<"hook">> ELSE <<>>)
    \o <<"melody">>
    \o (IF "outro" \in keys THEN <<"effects">> ELSE <<>>)

\* identifySurgeryTargets() for the structure of that name
identifySurgeryTargets(struct) == surgeryTargets(commonStructures(struct))

(* ------------------------------ helpers ------------------------------- *)
Put(b, e)  == b (+) SetToBag({e})
Take(b, e) == b (-) SetToBag({e})
Has(b, e)  == BagIn(e, b)

Gen(via, fb, stage, pat) == [via |-> via, fb |-> fb, stage |-> stage, pat |-> pat]
Pipe(ph, i, st) == [ph |-> ph, i |-> i, st |-> st]

\* the texts the session still holds somewhere
LiveTexts == {pattern, editor.pat, lastSent} \cup {g.pat : g \in BagToSet(gens)}

\* response.content[0].text of a completion call, after extractCode: a text
\* that differs from every text the session still holds
FreshText == CHOOSE n \in 1..(Cardinality(LiveTexts) + 1) : n \notin LiveTexts

(* -------------------------- broadcast channel ------------------------- *)
\* the observers that may connect to the WebSocket server
Observers == {"dashboard", "visitor"}

\* a message as an observer sees it: its type and the data that matter here
\* (the pattern text, the error text, the retry count), NULL otherwise
Msg(type, data) == [type |-> type, data |-> data]

\* a broadcast that sends to every socket of wss.clients
broadcastToAll(msgs) ==
    inbox' = [o \in Observers |->
                IF started /\ clients[o] # "none" THEN inbox[o] \cup msgs
                                                   ELSE inbox[o]]

\* broadcast(message) for each message of msgs: nothing without this.wss,
\* otherwise client.send for every client with readyState 1
broadcast(msgs) ==
    inbox' = [o \in Observers |->
                IF started /\ clients[o] = "open" THEN inbox[o] \cup msgs
                                                   ELSE inbox[o]]

(* ---------------------------- constructor ----------------------------- *)
\* the instance after new Dazzle(options), nobody connected
Idle ==
    /\ started = FALSE
    /\ page = FALSE
    /\ currentArtist = NULL
    /\ retryCount = 0
    /\ lastError = NULL
    /\ pattern = 0
    /\ songStructure = NULL
    /\ currentMode = NULL
    /\ editor = [pat |-> 0, cut |-> 0]
    /\ retryTimers = 0
    /\ autoplayTimers = 0
    /\ refineTimers = 0
    /\ gens = EmptyBag
    /\ autoplays = EmptyBag
    /\ repairs = EmptyBag
    /\ pipes = EmptyBag
    /\ errorsSeen = 0
    /\ requested = FALSE
    /\ regenCalls = 0
    /\ parenSeen = FALSE
    /\ playOK = FALSE
    /\ clicked = FALSE
    /\ stopped = FALSE
    /\ closed = FALSE
    /\ lastSent = 0
    /\ recordTimers = 0
    /\ isRecording = FALSE
    /\ recordProcess = FALSE
    /\ captures = 0
    /\ timeoutLive = FALSE
    /\ autoStops = 0
    /\ starts = EmptyBag
    /\ stops = EmptyBag
    /\ lastRecMsg = NULL
    /\ lastReq = NULL
    /\ audio = {}
    /\ messages = 0
    /\ clients = [o \in Observers |-> "none"]
    /\ inbox = [o \in Observers |-> {}]
    /\ extracted = [done |-> FALSE, code |-> <<>>]
    /\ targets = [done |-> FALSE, list |-> <<>>]

Init ==
    /\ Idle
    /\ response = <<>>
    /\ sectionKeys = {}

(* ------------------------------ start() ------------------------------- *)
\* start(): startServer(), then launchBrowser(), which sets this.page and
\* registers the console handler, or catches the launch failure
Start(ok) ==
    /\ ~started
    /\ started' = TRUE
    /\ page' = ok
    /\ UNCHANGED <<currentArtist, songStructure, currentMode, retry, texts, ops,
                   hist, life, lastSent, chan, parse, rec>>

(* --------------------------- generatePattern -------------------------- *)
\* if (!errorFeedback) this.retryCount = 0, for this.retryCount = rc at the call
ResetRetryCount(errorFeedback, rc) == IF errorFeedback = NULL THEN 0 ELSE rc

\* generatePattern(audioFile, artist, song, errorFeedback) up to its await of
\* the completion service.  rc is this.retryCount at the call, earlier the
\* messages the caller has broadcast in the same step.  The awaits of
\* getSongStructure, estimateBPM and the template read touch no field of the
\* instance and are part of this step.
generatePattern(via, artist, errorFeedback, rc, earlier) ==
    /\ currentArtist' = artist
    /\ broadcast(earlier \cup {Msg("songInfo", artist)})
    /\ retryCount' = ResetRetryCount(errorFeedback, rc)
    /\ gens' = Put(gens, Gen(via, errorFeedback, "completion", 0))

\* dazzle(): await dazzler.start(); await dazzler.generatePattern(audioFile, artist, song)
TopLevelRequest(artist) ==
    /\ started
    /\ ~requested
    /\ requested' = TRUE
    /\ generatePattern("top", artist, NULL, retryCount, {})
    /\ UNCHANGED <<started, page, songStructure, currentMode, lastError,
                   retryTimers, regenCalls, texts, autoplayTimers, refineTimers,
                   autoplays, repairs, pipes, errorsSeen, parenSeen, playOK, clicked,
                   life, lastSent, clients, parse, rec>>

\* retryWithErrorFeedback(): count, take and clear lastError, regenerate
retryWithErrorFeedback ==
    /\ lastError' = NULL
    /\ regenCalls' = regenCalls + 1
    /\ generatePattern("retry", currentArtist, lastError, retryCount + 1,
                       {Msg("retryUpdate", retryCount + 1)})

\* a 2 s timer set by the console handler fires
RetryFire ==
    /\ retryTimers > 0
    /\ retryTimers' = retryTimers - 1
    /\ retryWithErrorFeedback
    /\ UNCHANGED <<started, page, songStructure, currentMode, texts,
                   autoplayTimers, refineTimers, autoplays, repairs, pipes, hist,
                   life, lastSent, clients, parse, rec>>

\* the completion call with a fallback pattern substituted on failure
GenCompleteFallback(g, ok) ==
    /\ Has(gens, g)
    /\ g.stage = "completion"
    /\ pattern' = FreshText
    /\ gens' = IF ok THEN Put(Take(gens, g), Gen(g.via, g.fb, "validate", FreshText))
                     ELSE Take(gens, g)
    /\ UNCHANGED <<session, retry, editor, autoplayTimers, refineTimers,
                   autoplays, repairs, pipes, errorsSeen, requested, parenSeen,
                   playOK, clicked, life, lastSent, chan, parse, rec>>

\* the completion call of generatePattern returns (ok) or throws (~ok)
GenComplete(g, ok) ==
    /\ Has(gens, g)
    /\ g.stage = "completion"
    /\ IF ok
       THEN /\ pattern' = FreshText               \* this.pattern = extractCode(raw)
            /\ gens' = Put(Take(gens, g), Gen(g.via, g.fb, "validate", FreshText))
       ELSE /\ gens' = Take(gens, g)              \* throw new Error('Pattern generation failed')
            /\ UNCHANGED pattern
    /\ UNCHANGED <<session, retry, editor, autoplayTimers, refineTimers,
                   autoplays, repairs, pipes, errorsSeen, requested, parenSeen,
                   playOK, clicked, life, lastSent, chan, parse, rec>>

\* the validation pass with a failure that fails the request
GenValidateStrict(g, ok) ==
    /\ Has(gens, g)
    /\ g.stage = "validate"
    /\ IF ok
       THEN /\ pattern' = FreshText
            /\ lastSent' = pattern'
            /\ broadcast({Msg("pattern", pattern')})
            /\ gens' = Put(Take(gens, g), Gen(g.via, g.fb, "write", 0))
       ELSE /\ gens' = Take(gens, g)
            /\ UNCHANGED <<pattern, lastSent, inbox>>
    /\ UNCHANGED <<session, retry, editor, autoplayTimers, refineTimers,
                   autoplays, repairs, pipes, errorsSeen, requested, parenSeen,
                   playOK, clicked, life, rec, clients, parse>>

\* validatePattern(pattern) returns: the corrected text (ok) or, when the
\* validation call fails, the text it was given; then the pattern broadcast
\* and the await of the debug file write
GenValidate(g, ok) ==
    /\ Has(gens, g)
    /\ g.stage = "validate"
    /\ pattern' = IF ok THEN FreshText ELSE g.pat
    /\ lastSent' = pattern'                     \* broadcast({ type: 'pattern', data: this.pattern })
    /\ broadcast({Msg("pattern", pattern')})
    /\ gens' = Put(Take(gens, g), Gen(g.via, g.fb, "write", 0))
    /\ UNCHANGED <<session, retry, editor, autoplayTimers, refineTimers,
                   autoplays, repairs, pipes, errorsSeen, requested, parenSeen,
                   playOK, clicked, life, rec, clients, parse>>

\* if (!errorFeedback) setTimeout(() => this.startMultiPassRefinement(), 10000)
ScheduleRefinement(errorFeedback) ==
    refineTimers' = IF errorFeedback = NULL THEN refineTimers + 1 ELSE refineTimers

\* the tail of generatePattern, after the file write: song data stored, the
\* autoplay timer and (for a request without error feedback) the refinement
\* timer are set
GenWritten(g) ==
    /\ Has(gens, g)
    /\ g.stage = "write"
    /\ songStructure' = StructureOf(currentArtist)
    /\ autoplayTimers' = autoplayTimers + 1
    /\ ScheduleRefinement(g.fb)
    /\ gens' = Take(gens, g)
    /\ UNCHANGED <<started, page, currentArtist, currentMode, retry, texts,
                   autoplays, repairs, pipes, hist, life, lastSent, chan, parse, rec>>

(* ----------------------- console error handler ------------------------ *)
\* the local repair charged to the retry budget
LocalRepairBranchCounted ==
    /\ repairs' = Put(repairs, "frame")
    /\ parenSeen' = TRUE
    /\ retryCount' = retryCount + 1
    /\ UNCHANGED retryTimers

\* this.tryRemoveTrailingParen() called from the handler: runs to its first await
LocalRepairBranch ==
    /\ repairs' = Put(repairs, "frame")
    /\ parenSeen' = TRUE
    /\ UNCHANGED <<retryTimers, retryCount>>

\* setTimeout(() => this.retryWithErrorFeedback(), 2000)
RetryBranch ==
    /\ retryTimers' = retryTimers + 1
    /\ UNCHANGED <<repairs, parenSeen, retryCount>>

\* else if (this.retryCount < this.maxRetries && this.currentArtist && this.currentSong)
MayRetry == retryCount < maxRetries /\ currentArtist # NULL

\* the handler with an error that is stored and broadcast only when a repair
\* or a retry follows
ConsoleErrorQuietWhenFailed(text, budget) ==
    /\ started
    /\ page
    /\ ~closed
    /\ IF IsReportedError(text)
       THEN /\ errorsSeen < budget
            /\ errorsSeen' = errorsSeen + 1
            /\ IF IsTrailingParenError(text)
               THEN /\ LocalRepairBranch
                    /\ lastError' = text
                    /\ broadcast({Msg("error", text)})
               ELSE IF MayRetry
                    THEN /\ RetryBranch
                         /\ lastError' = text
                         /\ broadcast({Msg("error", text)})
                    ELSE UNCHANGED <<retryTimers, repairs, parenSeen, retryCount,
                                     lastError, inbox>>
       ELSE UNCHANGED <<errorsSeen, lastError, retryTimers, repairs, parenSeen,
                        retryCount, inbox>>
    /\ UNCHANGED <<session, regenCalls, texts, autoplayTimers, refineTimers,
                   gens, autoplays, pipes, requested, playOK, clicked, life, lastSent,
                   clients, parse, rec>>

\* this.page.on('console', msg => ...) for a message of type error
ConsoleError(text, budget) ==
    /\ started
    /\ page
    /\ ~closed
    /\ IF IsReportedError(text)
       THEN /\ errorsSeen < budget
            /\ errorsSeen' = errorsSeen + 1
            /\ lastError' = text
            /\ broadcast({Msg("error", text)})
            /\ IF IsTrailingParenError(text)
               THEN LocalRepairBranch
               ELSE IF MayRetry
                    THEN RetryBranch
                    ELSE UNCHANGED <<retryTimers, repairs, parenSeen, retryCount>>
       ELSE UNCHANGED <<errorsSeen, lastError, retryTimers, repairs, parenSeen,
                        retryCount, inbox>>
    /\ UNCHANGED <<session, regenCalls, texts, autoplayTimers, refineTimers,
                   gens, autoplays, pipes, requested, playOK, clicked, life, lastSent,
                   clients, parse, rec>>

(* ----------------------- tryRemoveTrailingParen ----------------------- *)
\* the recording timer set after the Space fallback as well
ScheduleRecordingAlways(how) ==
    /\ recordTimers' = IF how # "throw" THEN recordTimers + 1 ELSE recordTimers
    /\ clicked' = (clicked \/ how = "button")

\* if (playButton) { await playButton.click(); setTimeout(...) } else Space
ScheduleRecording(how) ==
    /\ recordTimers' = IF how = "button" THEN recordTimers + 1 ELSE recordTimers
    /\ clicked' = (clicked \/ how = "button")

\* after the frame and the editor were awaited: End, Backspace, evaluate (ok),
\* or the frame/editor is absent or a browser action throws (~ok)
RepairEdit(ok) ==
    /\ Has(repairs, "frame")
    /\ ok => ~closed
    /\ IF ok
       THEN /\ editor' = [editor EXCEPT !.cut = @ + 1]
            /\ repairs' = Put(Take(repairs, "frame"), "play")
       ELSE /\ repairs' = Take(repairs, "frame")
            /\ UNCHANGED editor
    /\ UNCHANGED <<session, retry, pattern, autoplayTimers, refineTimers, gens,
                   autoplays, pipes, hist, life, lastSent, chan, parse, rec>>

\* after the 2 s wait: click the play control, or press Space, or throw
RepairPlay(how) ==
    /\ Has(repairs, "play")
    /\ how # "throw" => ~closed
    /\ repairs' = Take(repairs, "play")
    /\ ScheduleRecording(how)
    /\ UNCHANGED <<session, retry, texts, autoplayTimers, refineTimers, gens,
                   autoplays, pipes, errorsSeen, requested, parenSeen, playOK,
                   life, lastSent, chan, parse, isRecording,
                   recordProcess, captures, timeoutLive, autoStops, starts, stops,
                   lastRecMsg, lastReq, audio, messages>>

(* ------------------------------ autoplay ------------------------------ *)
PlayOutcomes == {"button", "space", "throw"}
InstallOutcomes == {"ok", "noeditor", "fail"}

\* the 3 s timer fires: autoplay() returns at once without a page, otherwise
\* suspends waiting for the iframe
AutoplayFire ==
    /\ autoplayTimers > 0
    /\ autoplayTimers' = autoplayTimers - 1
    /\ autoplays' = IF page THEN Put(autoplays, "frame") ELSE autoplays
    /\ UNCHANGED <<session, retry, texts, refineTimers, gens, repairs, pipes, hist,
                   life, lastSent, chan, parse, rec>>

\* frame loaded: "ok" the editor is found, filled with this.pattern and
\* evaluated; "noeditor" the editor is missing and the install is skipped;
\* "fail" the frame is missing or a browser action throws
AutoplayInstall(how) ==
    /\ Has(autoplays, "frame")
    /\ how # "fail" => ~closed
    /\ CASE how = "ok" /\ pattern # 0 ->
              /\ editor' = [pat |-> pattern, cut |-> 0]
              /\ autoplays' = Put(Take(autoplays, "frame"), "play")
         [] how = "fail" ->
              /\ autoplays' = Take(autoplays, "frame")
              /\ UNCHANGED editor
         [] OTHER ->
              /\ autoplays' = Put(Take(autoplays, "frame"), "playOnly")
              /\ UNCHANGED editor
    /\ UNCHANGED <<session, retry, pattern, autoplayTimers, refineTimers, gens,
                   repairs, pipes, hist, life, lastSent, chan, parse, rec>>

\* the play control is clicked, or Space is pressed, or the lookup throws;
\* a is "play" after an install, "playOnly" after a skipped one
AutoplayPlay(a, how) ==
    /\ a \in {"play", "playOnly"}
    /\ Has(autoplays, a)
    /\ how # "throw" => ~closed
    /\ autoplays' = Take(autoplays, a)
    /\ ScheduleRecording(how)
    /\ playOK' = (playOK \/ (a = "play" /\ how = "button"))
    /\ UNCHANGED <<session, retry, texts, autoplayTimers, refineTimers, gens,
                   repairs, pipes, errorsSeen, requested, parenSeen, life,
                   lastSent, chan, parse, isRecording, recordProcess, captures, timeoutLive,
                   autoStops, starts, stops, lastRecMsg, lastReq, audio, messages>>

(* ------------------------ refinement pipeline ------------------------- *)
\* A pipeline is at [ph, i, st]: phase, 1-based index of the section or
\* target it works on, and the await it is suspended at: "gen" the completion
\* call, "install" updatePatternInBrowser, "wait" the pause before the next
\* section or target, "dwell" the pause before the next phase.
Worklist(ph) ==
    IF ph = "kaizen" THEN availableSections(songStructure)
    ELSE IF ph = "surgery" THEN identifySurgeryTargets(songStructure)
    ELSE <<>>

\* the continuation with Surgery begun straight after the last section
AfterStepStraight(p) ==
    CASE p.ph = "gestalt" -> Pipe("gestalt", 0, "dwell")
      [] p.ph = "kaizen"  -> IF p.i < Len(Worklist("kaizen"))
                             THEN Pipe("kaizen", p.i, "wait")
                             ELSE Pipe("surgery", 1, "gen")
      [] OTHER            -> IF p.i < Len(Worklist("surgery"))
                             THEN Pipe("surgery", p.i, "wait")
                             ELSE Pipe("complete", 0, "done")

\* where a pipeline continues once a step's try/catch is left: the 10 s
\* wait before the next section, the 15 s pause before Surgery after the
\* last one, the 6 s wait before the next target
AfterStep(p) ==
    CASE p.ph = "gestalt" -> Pipe("gestalt", 0, "dwell")
      [] p.ph = "kaizen"  -> IF p.i < Len(Worklist("kaizen"))
                             THEN Pipe("kaizen", p.i, "wait")
                             ELSE Pipe("kaizen", p.i, "dwell")
      [] OTHER            -> IF p.i < Len(Worklist("surgery"))
                             THEN Pipe("surgery", p.i, "wait")
                             ELSE Pipe("complete", 0, "done")

\* the board of a run that has no Kanban: gestalt, surgery, complete
NoKanban == [todo |-> <<>>, inProgress |-> <<>>, done |-> <<>>]

\* const kanban = { todo: [...availableSections], inProgress: [], done: [] }
NewKanban(w) == [todo |-> w, inProgress |-> <<>>, done |-> <<>>]

\* a section taken in progress and left on the todo list
TakeSectionKeepingTodo(kanban, section) ==
    [kanban EXCEPT !.inProgress = <<section>>]

\* kanban.todo = kanban.todo.filter(s => s !== section);
\* kanban.inProgress = [section]
TakeSection(kanban, section) ==
    [kanban EXCEPT !.todo = SelectSeq(kanban.todo, LAMBDA s : s # section),
                   !.inProgress = <<section>>]

\* kanban.inProgress = []; kanban.done.push(section)
MarkDone(kanban, section) ==
    [kanban EXCEPT !.inProgress = <<>>, !.done = Append(kanban.done, section)]

\* the kanban object of a kaizenMode() run over the worklist w when section
\* i has been taken (taken = TRUE) or marked done (taken = FALSE)
RECURSIVE KanbanAt(_, _, _)
KanbanAt(w, i, taken) ==
    IF i = 0 THEN NewKanban(w)
    ELSE IF taken THEN TakeSection(KanbanAt(w, i - 1, FALSE), w[i])
    ELSE MarkDone(KanbanAt(w, i, TRUE), w[i])

\* updateVisualization(mode, data): the message with the board it carries
Update(mode, kanban) ==
    Msg("visualizationUpdate", [mode |-> mode, kanban |-> kanban])

\* what a step broadcasts once its completion call has returned the text pat:
\* refineSection sends patternUpdate, gestaltMode and surgeryMode update the
\* visualization
GeneratedMessages(p, pat) ==
    IF p.ph = "kaizen" THEN {Msg("patternUpdate", pat)}
                       ELSE {Update(p.ph, NoKanban)}

\* what is broadcast when a step's try/catch is left: the section is marked
\* done on the board, the last target is followed by the 'complete' update
AfterStepMessages(p) ==
    IF p.ph = "kaizen"
    THEN {Update("kaizen", KanbanAt(Worklist("kaizen"), p.i, FALSE))}
    ELSE IF AfterStep(p).ph = "complete" THEN {Update("complete", NoKanban)}
    ELSE {}

\* startMultiPassRefinement(): if (!this.songStructure || !this.pattern) return
CanRefine == songStructure # NULL /\ pattern # 0

\* the 10 s timer fires: startMultiPassRefinement(), and gestaltMode() up to
\* its completion call
RefineFire ==
    /\ refineTimers > 0
    /\ refineTimers' = refineTimers - 1
    /\ IF CanRefine
       THEN /\ currentMode' = "gestalt"
            /\ broadcast({Msg("modeChange", NULL)})
            /\ pipes' = Put(pipes, Pipe("gestalt", 0, "gen"))
       ELSE UNCHANGED <<currentMode, pipes, inbox>>
    /\ UNCHANGED <<started, page, currentArtist, songStructure, retry, texts,
                   autoplayTimers, gens, autoplays, repairs, hist, life, lastSent,
                   clients, parse, rec>>

\* the completion call of a refinement step with a failure that ends the
\* pipeline
PipeGeneratedAborting(p, ok) ==
    /\ Has(pipes, p)
    /\ p.st = "gen"
    /\ IF ok
       THEN /\ pattern' = FreshText
            /\ broadcast(GeneratedMessages(p, pattern'))
            /\ pipes' = Put(Take(pipes, p), Pipe(p.ph, p.i, "install"))
       ELSE /\ pipes' = Take(pipes, p)
            /\ UNCHANGED <<pattern, inbox>>
    /\ UNCHANGED <<session, retry, editor, autoplayTimers, refineTimers, gens,
                   autoplays, repairs, errorsSeen, requested, parenSeen,
                   playOK, clicked, life, lastSent, clients, parse, rec>>

\* the completion call of gestaltMode, refineSection or surgeryMode returns
\* (ok: this.pattern is replaced) or throws (caught at the step)
PipeGenerated(p, ok) ==
    /\ Has(pipes, p)
    /\ p.st = "gen"
    /\ IF ok
       THEN /\ pattern' = FreshText
            /\ broadcast(GeneratedMessages(p, pattern'))
            /\ pipes' = Put(Take(pipes, p), Pipe(p.ph, p.i, "install"))
       ELSE /\ pipes' = Put(Take(pipes, p), AfterStep(p))
            /\ broadcast(AfterStepMessages(p))
            /\ UNCHANGED pattern
    /\ UNCHANGED <<session, retry, editor, autoplayTimers, refineTimers, gens,
                   autoplays, repairs, errorsSeen, requested, parenSeen,
                   playOK, clicked, life, lastSent, clients, parse, rec>>

\* updatePatternInBrowser(): whole-content replace by this.pattern and
\* evaluate (ok, with a page in an open browser), or no page / frame / editor,
\* or a caught throw
updatePatternInBrowser(ok) ==
    editor' = IF page /\ ~closed /\ ok THEN [pat |-> pattern, cut |-> 0] ELSE editor

\* the install of a refinement step with a failure that is raised and ends
\* the pipeline
PipeInstalledRaising(p, ok) ==
    /\ Has(pipes, p)
    /\ p.st = "install"
    /\ updatePatternInBrowser(ok)
    /\ IF ok
       THEN /\ pipes' = Put(Take(pipes, p), AfterStep(p))
            /\ broadcast(AfterStepMessages(p))
       ELSE /\ pipes' = Take(pipes, p)
            /\ UNCHANGED inbox
    /\ UNCHANGED <<session, retry, pattern, autoplayTimers, refineTimers, gens,
                   autoplays, repairs, hist, life, lastSent, clients, parse, rec>>

\* updatePatternInBrowser() returns, installed or not, and the step is left
PipeInstalled(p, ok) ==
    /\ Has(pipes, p)
    /\ p.st = "install"
    /\ updatePatternInBrowser(ok)
    /\ pipes' = Put(Take(pipes, p), AfterStep(p))
    /\ broadcast(AfterStepMessages(p))
    /\ UNCHANGED <<session, retry, pattern, autoplayTimers, refineTimers, gens,
                   autoplays, repairs, hist, life, lastSent, clients, parse, rec>>

\* what is broadcast when a pause ends: the section taken in progress or
\* the surgery target begun; at a phase change the mode, and for Kaizen the
\* 'starting' board followed by the board with the first section taken
StartedMessages(p) ==
    LET w == Worklist("kaizen")
    IN  CASE p.st = "wait" /\ p.ph = "kaizen" ->
                 {Update("kaizen", KanbanAt(w, p.i + 1, TRUE))}
          [] p.st = "wait" -> {Update(p.ph, NoKanban)}
          [] p.st = "dwell" /\ p.ph = "gestalt" ->
                 {Msg("modeChange", NULL), Update("kaizen", NewKanban(w))}
                 \cup (IF Len(w) = 0 THEN {}
                       ELSE {Update("kaizen", KanbanAt(w, 1, TRUE))})
          [] OTHER -> {Msg("modeChange", NULL), Update("surgery", NoKanban)}

\* a pause ends: the next section or target, or the next phase, begins and
\* runs up to its completion call
PipeTimer(p) ==
    /\ Has(pipes, p)
    /\ p.st \in {"wait", "dwell"}
    /\ broadcast(StartedMessages(p))
    /\ CASE p.st = "wait" ->
              /\ pipes' = Put(Take(pipes, p), Pipe(p.ph, p.i + 1, "gen"))
              /\ UNCHANGED currentMode
         [] p.st = "dwell" /\ p.ph = "gestalt" ->          \* kaizenMode()
              /\ currentMode' = "kaizen"
              /\ pipes' = Put(Take(pipes, p),
                              IF Len(Worklist("kaizen")) = 0
                              THEN Pipe("kaizen", 0, "dwell")
                              ELSE Pipe("kaizen", 1, "gen"))
         [] OTHER ->                                         \* surgeryMode()
              /\ currentMode' = "surgery"
              /\ pipes' = Put(Take(pipes, p), Pipe("surgery", 1, "gen"))
    /\ UNCHANGED <<started, page, currentArtist, songStructure, retry, texts,
                   autoplayTimers, refineTimers, gens, autoplays, repairs, hist,
                   life, lastSent, clients, parse, rec>>

(* ------------------------------ recording ----------------------------- *)
MaxMessages == 3      \* recording messages received from observers in SpecRecord

CaptureOutcomes == {"rec", "recerr", "placeholder"}

StopCall(st, by) == [st |-> st, by |-> by]

\* startRecording() up to its await of startAudioCapture: a no-op while
\* isRecording, otherwise the flag is set before the capture is launched
startRecording ==
    /\ lastReq' = "start"
    /\ IF isRecording
       THEN UNCHANGED <<isRecording, starts>>
       ELSE /\ isRecording' = TRUE
            /\ starts' = Put(starts, "which")

\* this.recordingTimeout = setTimeout(..., 30000): one more pending timer, and
\* the field now refers to it
ArmAutoStop ==
    /\ autoStops' = autoStops + 1
    /\ timeoutLive' = TRUE

\* `which rec` has returned.  "rec": a recorder (rec, or afrecord on macOS) is
\* spawned and writes the file; "recerr": it is spawned, fails at once and
\* the exec callback logs the error; "placeholder": no recorder, the
\* limitation is logged and an empty file is being written.  After a spawn
\* startRecording broadcasts recordingStarted and arms the auto-stop timer.
CaptureLaunched(outcome) ==
    /\ Has(starts, "which")
    /\ CASE outcome = "rec" ->
              /\ recordProcess' = TRUE
              /\ captures' = captures + 1
              /\ audio' = audio \cup {"file"}
              /\ starts' = Take(starts, "which")
              /\ lastRecMsg' = "recordingStarted"
              /\ broadcast({Msg("recordingStarted", NULL)})
              /\ ArmAutoStop
         [] outcome = "recerr" ->
              /\ recordProcess' = TRUE
              /\ audio' = audio \cup {"note"}
              /\ starts' = Take(starts, "which")
              /\ lastRecMsg' = "recordingStarted"
              /\ broadcast({Msg("recordingStarted", NULL)})
              /\ ArmAutoStop
              /\ UNCHANGED captures
         [] OTHER ->
              /\ audio' = audio \cup {"note"}
              /\ starts' = Put(Take(starts, "which"), "write")
              /\ UNCHANGED <<recordProcess, captures, lastRecMsg, autoStops,
                             timeoutLive, inbox>>
    /\ UNCHANGED <<session, retry, texts, ops, hist, life, lastSent, clients,
                   parse, recordTimers, isRecording, stops, lastReq, messages>>

\* the placeholder file is written: recordingStarted, auto-stop timer
PlaceholderWritten ==
    /\ Has(starts, "write")
    /\ starts' = Take(starts, "write")
    /\ audio' = audio \cup {"file"}
    /\ lastRecMsg' = "recordingStarted"
    /\ broadcast({Msg("recordingStarted", NULL)})
    /\ ArmAutoStop
    /\ UNCHANGED <<session, retry, texts, ops, hist, life, lastSent, clients,
                   parse, recordTimers, isRecording, recordProcess, captures,
                   stops, lastReq, messages>>

\* stopRecording() up to its first timed await, called by `by` when the timer
\* of this.recordingTimeout is pending or not (live) and pend auto-stop timers
\* are pending: a no-op unless isRecording; otherwise clearTimeout, the flag
\* is reset, the recorder (if this.recordProcess is set) is killed and the
\* call waits 500 ms, or goes on to the archive copy
stopRecording(by, live, pend) ==
    /\ lastReq' = "stop"
    /\ IF ~isRecording
       THEN /\ timeoutLive' = live
            /\ autoStops' = pend
            /\ UNCHANGED <<isRecording, recordProcess, captures, stops>>
       ELSE /\ timeoutLive' = FALSE
            /\ autoStops' = IF live THEN pend - 1 ELSE pend
            /\ isRecording' = FALSE
            /\ IF recordProcess
               THEN /\ recordProcess' = FALSE
                    /\ captures' = IF captures > 0 THEN captures - 1 ELSE 0
                    /\ stops' = Put(stops, StopCall("finalize", by))
               ELSE /\ stops' = Put(stops, StopCall("copy", by))
                    /\ UNCHANGED <<recordProcess, captures>>

\* the 1 s timer set after a click on play fires
RecordTimerFire ==
    /\ recordTimers > 0
    /\ recordTimers' = recordTimers - 1
    /\ broadcast({Msg("autoplayStarted", NULL)})
    /\ startRecording
    /\ UNCHANGED <<session, retry, texts, ops, hist, life, lastSent, clients,
                   parse, recordProcess, captures, timeoutLive, autoStops, stops,
                   lastRecMsg, audio, messages>>

\* ws.on('message'): { type: 'startRecording' } from an observer, once the
\* song is known
ObserverStartRecording ==
    /\ started
    /\ ~closed
    /\ currentArtist # NULL
    /\ messages < MaxMessages
    /\ messages' = messages + 1
    /\ startRecording
    /\ UNCHANGED <<session, retry, texts, ops, hist, life, lastSent, chan, parse,
                   recordTimers, recordProcess, captures, timeoutLive,
                   autoStops, stops, lastRecMsg, audio>>

\* ws.on('message'): { type: 'stopRecording' } from an observer
ObserverStopRecording ==
    /\ started
    /\ ~closed
    /\ messages < MaxMessages
    /\ messages' = messages + 1
    /\ stopRecording("observer", timeoutLive, autoStops)
    /\ UNCHANGED <<session, retry, texts, ops, hist, life, lastSent, chan, parse,
                   recordTimers, starts, lastRecMsg, audio>>

\* a 30 s auto-stop timer fires: the one this.recordingTimeout refers to
\* (held), or an earlier one the field no longer refers to
AutoStopFire(held) ==
    /\ IF held THEN timeoutLive ELSE autoStops > (IF timeoutLive THEN 1 ELSE 0)
    /\ IF isRecording                       \* if (this.isRecording)
       THEN stopRecording("timer", timeoutLive /\ ~held, autoStops - 1)
       ELSE /\ timeoutLive' = (timeoutLive /\ ~held)
            /\ autoStops' = autoStops - 1
            /\ UNCHANGED <<isRecording, recordProcess, captures, stops,
                           lastReq>>
    /\ UNCHANGED <<session, retry, texts, ops, hist, life, lastSent, chan, parse,
                   recordTimers, starts, lastRecMsg, audio, messages>>

\* the 500 ms wait of stopAudioCapture is over
StopFinalized(c) ==
    /\ Has(stops, c)
    /\ c.st = "finalize"
    /\ stops' = Put(Take(stops, c), StopCall("copy", c.by))
    /\ UNCHANGED <<session, retry, texts, ops, hist, life, lastSent, chan, parse,
                   recordTimers, isRecording, recordProcess, captures,
                   timeoutLive, autoStops, starts, lastRecMsg, lastReq, audio,
                   messages>>

\* fs.copyFile to the archive returns (ok) or throws and is caught; then
\* recordingStopped is broadcast.  A call made by stop() goes on to close
\* the browser and the servers
StopCopied(c, ok) ==
    /\ Has(stops, c)
    /\ c.st = "copy"
    /\ ok => "file" \in audio
    /\ stops' = Take(stops, c)
    /\ lastRecMsg' = "recordingStopped"
    /\ broadcast({Msg("recordingStopped", NULL)})
    /\ closed' = (closed \/ c.by = "stop")
    /\ UNCHANGED <<session, retry, texts, ops, hist, stopped, lastSent, clients,
                   parse, recordTimers, isRecording, recordProcess, captures,
                   timeoutLive, autoStops, starts, lastReq, audio, messages>>

(* ------------------------------- stop() ------------------------------- *)
\* stop(): await stopRecording() when recording, then the browser and the
\* servers are closed
Stop ==
    /\ started
    /\ ~stopped
    /\ stopped' = TRUE
    /\ IF isRecording
       THEN /\ stopRecording("stop", timeoutLive, autoStops)
            /\ UNCHANGED closed
       ELSE /\ closed' = TRUE
            /\ UNCHANGED <<isRecording, recordProcess, captures, timeoutLive,
                           autoStops, stops, lastReq>>
    /\ UNCHANGED <<session, retry, texts, ops, hist, lastSent, chan, parse, recordTimers,
                   starts, lastRecMsg, audio, messages>>

(* ------------------------------ observers ----------------------------- *)
\* a connection handler that sends the pattern last broadcast
ObserverConnectReplaying(o) ==
    /\ started
    /\ ~closed
    /\ clients[o] = "none"
    /\ clients' = [clients EXCEPT ![o] = "open"]
    /\ inbox' = [inbox EXCEPT ![o] = IF lastSent # 0 THEN {Msg("pattern", lastSent)}
                                                      ELSE {}]
    /\ UNCHANGED <<session, retry, texts, ops, hist, life, lastSent, rec, parse>>

\* wss.on('connection'): the socket joins wss.clients, and the current pattern
\* is sent to it if there is one
ObserverConnect(o) ==
    /\ started
    /\ ~closed
    /\ clients[o] = "none"
    /\ clients' = [clients EXCEPT ![o] = "open"]
    /\ inbox' = [inbox EXCEPT ![o] = IF pattern # 0 THEN {Msg("pattern", pattern)}
                                                     ELSE {}]
    /\ UNCHANGED <<session, retry, texts, ops, hist, life, lastSent, rec, parse>>

\* the observer's socket leaves readyState 1 (the page is closed, the
\* connection drops); it stays in wss.clients until the close has completed
ObserverClose(o) ==
    /\ clients[o] = "open"
    /\ clients' = [clients EXCEPT ![o] = "closing"]
    /\ UNCHANGED <<session, retry, texts, ops, hist, life, lastSent, rec, inbox,
                   parse>>

\* ws.on('message'): { type: 'audioData' } from an observer is forwarded to
\* all clients
ObserverAudioData(o) ==
    /\ clients[o] = "open"
    /\ broadcast({Msg("audioData", NULL)})
    /\ UNCHANGED <<session, retry, texts, ops, hist, life, lastSent, rec,
                   clients, parse>>

\* sendLog(message, level), callable on the instance at any time
sendLog ==
    /\ broadcast({Msg("log", NULL)})
    /\ UNCHANGED <<session, retry, texts, ops, hist, life, lastSent, rec,
                   clients, parse>>

(* --------------------------- specification ---------------------------- *)
\* the whole session
Next ==
    \/ \E ok \in BOOLEAN : Start(ok)
    \/ \E artist \in Artists : TopLevelRequest(artist)
    \/ \E text \in ConsoleTexts : ConsoleError(text, MaxRefineErrors)
    \/ RetryFire
    \/ \E g \in BagToSet(gens), ok \in BOOLEAN : GenComplete(g, ok)
    \/ \E g \in BagToSet(gens), ok \in BOOLEAN : GenValidate(g, ok)
    \/ \E g \in BagToSet(gens) : GenWritten(g)
    \/ \E ok \in BOOLEAN : RepairEdit(ok)
    \/ \E how \in PlayOutcomes : RepairPlay(how)
    \/ AutoplayFire
    \/ \E how \in InstallOutcomes : AutoplayInstall(how)
    \/ \E a \in BagToSet(autoplays), how \in PlayOutcomes : AutoplayPlay(a, how)
    \/ RefineFire
    \/ \E p \in BagToSet(pipes), ok \in BOOLEAN : PipeGenerated(p, ok)
    \/ \E p \in BagToSet(pipes), ok \in BOOLEAN : PipeInstalled(p, ok)
    \/ \E p \in BagToSet(pipes) : PipeTimer(p)

Spec == Init /\ [][Next]_vars

\* the session until the first completion call of a refinement pipeline
\* returns: requests, errors, retries, repairs, autoplay and the start of the
\* refinement
NextRetry ==
    \/ \E ok \in BOOLEAN : Start(ok)
    \/ \E artist \in Artists : TopLevelRequest(artist)
    \/ \E text \in ConsoleTexts : ConsoleError(text, MaxErrors)
    \/ RetryFire
    \/ \E g \in BagToSet(gens), ok \in BOOLEAN : GenComplete(g, ok)
    \/ \E g \in BagToSet(gens), ok \in BOOLEAN : GenValidate(g, ok)
    \/ \E g \in BagToSet(gens) : GenWritten(g)
    \/ \E ok \in BOOLEAN : RepairEdit(ok)
    \/ \E how \in PlayOutcomes : RepairPlay(how)
    \/ AutoplayFire
    \/ \E how \in InstallOutcomes : AutoplayInstall(how)
    \/ \E a \in BagToSet(autoplays), how \in PlayOutcomes : AutoplayPlay(a, how)
    \/ RefineFire

SpecRetry == Init /\ [][NextRetry]_vars

\* the session while every completion call is still outstanding: a burst of
\* runtime errors, the retry timers they set and the local repairs they start
NextBurst ==
    \/ \E ok \in BOOLEAN : Start(ok)
    \/ \E artist \in Artists : TopLevelRequest(artist)
    \/ \E text \in ConsoleTexts : ConsoleError(text, MaxBurst)
    \/ RetryFire
    \/ \E ok \in BOOLEAN : RepairEdit(ok)
    \/ \E how \in PlayOutcomes : RepairPlay(how)

SpecBurst == Init /\ [][NextBurst]_vars

\* the session without runtime errors, up to shutdown: request, generation,
\* autoplay, the whole refinement pipeline, stop()
NextLife ==
    \/ \E ok \in BOOLEAN : Start(ok)
    \/ \E artist \in AllArtists : TopLevelRequest(artist)
    \/ \E g \in BagToSet(gens), ok \in BOOLEAN : GenComplete(g, ok)
    \/ \E g \in BagToSet(gens), ok \in BOOLEAN : GenValidate(g, ok)
    \/ \E g \in BagToSet(gens) : GenWritten(g)
    \/ AutoplayFire
    \/ \E how \in InstallOutcomes : AutoplayInstall(how)
    \/ \E a \in BagToSet(autoplays), how \in PlayOutcomes : AutoplayPlay(a, how)
    \/ RefineFire
    \/ \E p \in BagToSet(pipes), ok \in BOOLEAN : PipeGenerated(p, ok)
    \/ \E p \in BagToSet(pipes), ok \in BOOLEAN : PipeInstalled(p, ok)
    \/ \E p \in BagToSet(pipes) : PipeTimer(p)
    \/ Stop

SpecLife == Init /\ [][NextLife]_vars

\* the recording controller: the request and its autoplay, the recording
\* timers, the observers' recording messages, stop()
NextRecord ==
    \/ \E ok \in BOOLEAN : Start(ok)
    \/ \E artist \in Artists : TopLevelRequest(artist)
    \/ \E g \in BagToSet(gens), ok \in BOOLEAN : GenComplete(g, ok)
    \/ \E g \in BagToSet(gens), ok \in BOOLEAN : GenValidate(g, ok)
    \/ \E g \in BagToSet(gens) : GenWritten(g)
    \/ AutoplayFire
    \/ \E how \in InstallOutcomes : AutoplayInstall(how)
    \/ \E a \in BagToSet(autoplays), how \in PlayOutcomes : AutoplayPlay(a, how)
    \/ RecordTimerFire
    \/ ObserverStartRecording
    \/ ObserverStopRecording
    \/ \E outcome \in CaptureOutcomes : CaptureLaunched(outcome)
    \/ PlaceholderWritten
    \/ \E held \in BOOLEAN : AutoStopFire(held)
    \/ \E c \in BagToSet(stops) : StopFinalized(c)
    \/ \E c \in BagToSet(stops), ok \in BOOLEAN : StopCopied(c, ok)
    \/ Stop

SpecRecord == Init /\ [][NextRecord]_vars

\* every timer that is pending fires and every awaited call returns; the
\* observers' messages and stop() may or may not come
RecordFairness ==
    /\ WF_vars(RecordTimerFire)
    /\ WF_vars(\E outcome \in CaptureOutcomes : CaptureLaunched(outcome))
    /\ WF_vars(PlaceholderWritten)
    /\ WF_vars(\E held \in BOOLEAN : AutoStopFire(held))
    /\ WF_vars(\E c \in BagToSet(stops) : StopFinalized(c))
    /\ WF_vars(\E c \in BagToSet(stops), ok \in BOOLEAN : StopCopied(c, ok))

SpecRecordFair == SpecRecord /\ RecordFairness

\* the error reports: a burst of runtime errors with observers connected,
\* the retry timers they set and the local repairs they start
NextReport ==
    \/ \E ok \in BOOLEAN : Start(ok)
    \/ \E o \in Observers : ObserverConnect(o)
    \/ \E artist \in Artists : TopLevelRequest(artist)
    \/ \E text \in ConsoleTexts : ConsoleError(text, MaxReports)
    \/ RetryFire
    \/ \E ok \in BOOLEAN : RepairEdit(ok)
    \/ \E how \in PlayOutcomes : RepairPlay(how)

SpecReport == Init /\ [][NextReport]_vars

\* the session and its browser: autoplay, the installs of the refinement
\* pipeline and the local repairs that trailing-parenthesis errors start
NextBrowser ==
    \/ \E ok \in BOOLEAN : Start(ok)
    \/ \E artist \in Artists : TopLevelRequest(artist)
    \/ ConsoleError(ParenError, MaxBrowserErrors)
    \/ \E g \in BagToSet(gens), ok \in BOOLEAN : GenComplete(g, ok)
    \/ \E g \in BagToSet(gens), ok \in BOOLEAN : GenValidate(g, ok)
    \/ \E g \in BagToSet(gens) : GenWritten(g)
    \/ \E ok \in BOOLEAN : RepairEdit(ok)
    \/ \E how \in PlayOutcomes : RepairPlay(how)
    \/ AutoplayFire
    \/ \E how \in InstallOutcomes : AutoplayInstall(how)
    \/ \E a \in BagToSet(autoplays), how \in PlayOutcomes : AutoplayPlay(a, how)
    \/ RefineFire
    \/ \E p \in BagToSet(pipes), ok \in BOOLEAN : PipeGenerated(p, ok)
    \/ \E p \in BagToSet(pipes), ok \in BOOLEAN : PipeInstalled(p, ok)
    \/ \E p \in BagToSet(pipes) : PipeTimer(p)

SpecBrowser == Init /\ [][NextBrowser]_vars

\* play and what follows it: autoplay and local repairs up to the play
\* control, the recording timer, the start of the capture, with observers
NextPlay ==
    \/ \E ok \in BOOLEAN : Start(ok)
    \/ \E o \in Observers : ObserverConnect(o)
    \/ \E artist \in Artists : TopLevelRequest(artist)
    \/ ConsoleError(ParenError, MaxBrowserErrors)
    \/ \E g \in BagToSet(gens), ok \in BOOLEAN : GenComplete(g, ok)
    \/ \E g \in BagToSet(gens), ok \in BOOLEAN : GenValidate(g, ok)
    \/ \E g \in BagToSet(gens) : GenWritten(g)
    \/ \E ok \in BOOLEAN : RepairEdit(ok)
    \/ \E how \in PlayOutcomes : RepairPlay(how)
    \/ AutoplayFire
    \/ \E how \in InstallOutcomes : AutoplayInstall(how)
    \/ \E a \in BagToSet(autoplays), how \in PlayOutcomes : AutoplayPlay(a, how)
    \/ RecordTimerFire
    \/ \E outcome \in CaptureOutcomes : CaptureLaunched(outcome)
    \/ PlaceholderWritten

SpecPlay == Init /\ [][NextPlay]_vars

\* the broadcast channel: observers connect and leave while a request is
\* generated and its pattern is sent
NextChannel ==
    \/ \E ok \in BOOLEAN : Start(ok)
    \/ \E o \in Observers : ObserverConnect(o)
    \/ \E o \in Observers : ObserverClose(o)
    \/ \E o \in Observers : ObserverAudioData(o)
    \/ sendLog
    \/ \E artist \in Artists : TopLevelRequest(artist)
    \/ \E g \in BagToSet(gens), ok \in BOOLEAN : GenComplete(g, ok)
    \/ \E g \in BagToSet(gens), ok \in BOOLEAN : GenValidate(g, ok)
    \/ \E g \in BagToSet(gens) : GenWritten(g)
    \/ Stop

SpecChannel == Init /\ [][NextChannel]_vars

(* ------------------------------ properties ---------------------------- *)
\* the handler accepts a runtime error in this step
ErrorReported == errorsSeen' = errorsSeen + 1

\* "Unexpected token" together with a parenthesis reference
HasParenSignature(text) ==
    /\ Includes(text, "Unexpected token")
    /\ (Includes(text, ")") \/ Includes(text, "paren"))

\* retry/repair cycles in flight: retries scheduled, retries generating,
\* local repairs under way
RetryGens == [g \in {x \in BagToSet(gens) : x.via = "retry"} |-> gens[g]]
CyclesInFlight == retryTimers + BagCardinality(RetryGens) + BagCardinality(repairs)

PhaseRank(mode) ==
    CASE mode = "gestalt" -> 1
      [] mode = "kaizen"  -> 2
      [] mode = "surgery" -> 3
      [] OTHER            -> 0

\* C1: in every reachable state retryCount <= maxRetries, also when several
\* errors arrive before a scheduled retry has fired
C1_RetryCountBounded == retryCount <= maxRetries

\* C2: at most one retry/repair cycle is in flight: an error that arrives
\* while a repair or retry is pending starts no second cycle
C2_OneCycleInFlight == CyclesInFlight <= 1

\* C3: with no trailing-parenthesis error among the runtime errors, at most
\* maxRetries regeneration calls are issued after the top-level request
C3_AtMostMaxRegenerations == ~parenSeen => regenCalls <= maxRetries

\* C4: retryCount is set to 0 when the top-level generation begins, and a
\* generation issued by the retry path leaves it at the incremented count
C4_ResetOnlyAtTopLevel ==
    [][ /\ (requested' # requested => retryCount' = 0)
        /\ (regenCalls' # regenCalls => retryCount' = retryCount + 1) ]_vars

C6_RepairConsumesNothing ==
    [][ repairs' # repairs
          => /\ retryCount' = retryCount
             /\ regenCalls' = regenCalls
             /\ gens' = gens
             /\ pipes' = pipes ]_vars

\* C6 witness: the first pattern got a trailing-parenthesis error, the repair
\* removed the last character, and retryCount is still 0
C6_Witness ==
    /\ lastError = ParenError
    /\ editor.pat # 0
    /\ editor.cut = 1
    /\ Has(repairs, "play")
    /\ regenCalls = 0
    /\ retryCount = 0

\* the current pattern is installed and a local repair has already edited it
RepairedOnce == pattern # 0 /\ editor.pat = pattern /\ editor.cut > 0

\* C7: a trailing-parenthesis error for the installed current pattern that a
\* local repair has already edited starts no further repair; it is retried
\* when the budget allows
C7_RepairOnlyFirstError ==
    [][ (ErrorReported /\ HasParenSignature(lastError') /\ RepairedOnce)
          => /\ repairs' = repairs
             /\ (MayRetry => retryTimers' = retryTimers + 1) ]_vars

C9_RefineOnlyAfterPlay == pipes # EmptyBag => playOK

InstallsInFlight == CopiesIn("frame", autoplays)

\* refinement steps between their completion call and the end of their install
PipeSteps == [p \in {x \in BagToSet(pipes) : x.st \in {"gen", "install"}} |-> pipes[p]]

\* mutations of this.pattern or of the editor content in flight
MutationsInFlight == InstallsInFlight + CyclesInFlight + BagCardinality(PipeSteps)

\* C11: at most one mutation of the pattern and of the editor content is in
\* flight: the autoplay install, a retry/repair cycle and a refinement step
\* never overlap
C11_OneMutationInFlight == MutationsInFlight <= 1

\* pipelines suspended at a pause between steps or phases
PipePauses == [p \in {x \in BagToSet(pipes) : x.st \in {"wait", "dwell"}} |-> pipes[p]]

\* timers of the instance still pending
PendingTimers ==
    retryTimers + autoplayTimers + refineTimers + recordTimers + autoStops
    + BagCardinality(PipePauses)

\* C12: once stop() has been called no timer is pending and no refinement
\* step issues a generate or install call
C12_StopClearsTimers ==
    [][ stopped'
          => /\ PendingTimers' = 0
             /\ \A p \in BagToSet(pipes') :
                  p.st \in {"gen", "install"} => CopiesIn(p, pipes') <= CopiesIn(p, pipes) ]_vars

\* generatePattern call g ends in this step at its completion call
CompletionFailed(g) ==
    /\ g.stage = "completion"
    /\ CopiesIn(g, gens') < CopiesIn(g, gens)
    /\ BagCardinality(gens') < BagCardinality(gens)

StepFailed(p) ==
    /\ p.st = "gen"
    /\ CopiesIn(p, pipes') < CopiesIn(p, pipes)
    /\ CopiesIn(Pipe(p.ph, p.i, "install"), pipes') <= CopiesIn(Pipe(p.ph, p.i, "install"), pipes)

\* C14: a refinement step whose generation fails leaves this.pattern as it
\* was, and its pipeline continues where a successful step would continue
C14_StepFailureIsLocal ==
    [][ \A p \in BagToSet(pipes) :
          StepFailed(p)
            => /\ pattern' = pattern
               /\ CopiesIn(AfterStep(p), pipes') > CopiesIn(AfterStep(p), pipes)
               /\ BagCardinality(pipes') = BagCardinality(pipes) ]_vars

\* C14 witness: the Gestalt generation failed, the pattern is still the one
\* generatePattern broadcast, and the pipeline is in a Kaizen section
C14_Witness ==
    /\ pattern # 0
    /\ pattern = lastSent
    /\ currentMode = "kaizen"
    /\ \E p \in BagToSet(pipes) : p.ph = "kaizen" /\ p.st = "gen"

PipesDone == \A p \in BagToSet(pipes) : p.st = "done"

\* nothing that writes this.pattern or the editor is pending or in flight
Quiescent ==
    /\ gens = EmptyBag
    /\ autoplays = EmptyBag
    /\ repairs = EmptyBag
    /\ retryTimers + autoplayTimers + refineTimers = 0
    /\ PipesDone

\* C16: this.pattern is the text last installed in the editor; stated for a
\* session with an open browser at rest, when no install is pending any more
C16_PatternIsInstalled ==
    (Quiescent /\ page /\ ~closed /\ pattern # 0) => pattern = editor.pat

\* C17: at most one capture process runs and at most one auto-stop timer is
\* pending
C17_OneCaptureOneTimer == captures <= 1 /\ autoStops <= 1

\* stopRecording() call c returns in this step
StopReturns(c) == c.st = "copy" /\ CopiesIn(c, stops') < CopiesIn(c, stops)

\* C18: when a stopRecording() call returns it has broadcast recordingStopped,
\* and the output file exists or a note about the capture has been logged
C18_StopLeavesFileOrNote ==
    [][ \A c \in BagToSet(stops) :
          StopReturns(c) => lastRecMsg' = "recordingStopped" /\ audio' # {} ]_vars

\* C19: a capture that runs is eventually terminated, by an explicit stop or
\* by the auto-stop timer armed at its start
C19_CaptureEventuallyStopped == (captures > 0) ~> (captures = 0)

\* C20: at rest the last `pattern` message the observers received carries
\* this.pattern
C20_ObserversHoldPattern == (Quiescent /\ pattern # 0) => lastSent = pattern

(* ------------------------- the broadcast channel ---------------------- *)
\* the message types of the channel's contract
BroadcastTypes ==
    {"pattern", "songInfo", "error", "retryUpdate", "autoplayStarted",
     "recordingStarted", "recordingStopped", "modeChange",
     "visualizationUpdate", "log"}

\* C21: every message an observer receives on the broadcast channel has a
\* type of the closed set pattern, songInfo, error, retryUpdate,
\* autoplayStarted, recordingStarted, recordingStopped, modeChange,
\* visualizationUpdate, log
C21_ClosedTypeSet ==
    \A o \in Observers : \A m \in inbox[o] : m.type \in BroadcastTypes

(* ------------------------------ extractCode --------------------------- *)
\* A response is a sequence of tokens: the fence, a word after a fence, the
\* line break, text and blanks.
MaxLines == 5         \* lines of a completion response

Fence == "fence"      \* three backquotes
Newline == "\n"

\* (?:javascript|js|strudel)
ListedTags == {"javascript", "js", "strudel"}

\* the lines a response is made of
LineKinds ==
    {<<Fence>>, <<Fence, "javascript">>, <<Fence, "js">>, <<Fence, "strudel">>,
     <<Fence, "python">>, <<" ", "x", " ">>}

\* lines.join('\n')
RECURSIVE Join(_)
Join(lines) ==
    IF Len(lines) = 0 THEN <<>>
    ELSE IF Len(lines) = 1 THEN lines[1]
    ELSE lines[1] \o <<Newline>> \o Join(Tail(lines))

RECURSIVE SeqsUpTo(_, _)
SeqsUpTo(S, n) ==
    IF n = 0 THEN {<<>>}
    ELSE LET shorter == SeqsUpTo(S, n - 1)
         IN  shorter \cup {Append(q, x) : q \in shorter, x \in S}

Responses == {Join(lines) : lines \in SeqsUpTo(LineKinds, MaxLines)} \ {<<>>}

\* where the group ([\s\S]*?) starts when ```(?:javascript|js|strudel)?\n
\* matches at token i of r, 0 when it does not match there
ContentStart(r, i) ==
    IF r[i] # Fence THEN 0
    ELSE IF i + 2 <= Len(r) /\ r[i + 1] \in ListedTags /\ r[i + 2] = Newline
         THEN i + 3
    ELSE IF i + 1 <= Len(r) /\ r[i + 1] = Newline THEN i + 2
    ELSE 0

\* the fences at or after token k of r
FencesFrom(r, k) == {j \in k..Len(r) : r[j] = Fence}

Least(S) == CHOOSE x \in S : \A y \in S : x <= y

\* the tokens at which the whole expression matches
Matches(r) ==
    {i \in 1..Len(r) : ContentStart(r, i) # 0
                       /\ FencesFrom(r, ContentStart(r, i)) # {}}

\* extractCode(response): codeMatch[1] of the leftmost match, the group
\* taken lazily up to the next fence, or the response itself
extractCode(r) ==
    IF Matches(r) = {} THEN r
    ELSE LET i  == Least(Matches(r))
             cs == ContentStart(r, i)
         IN  SubSeq(r, cs, Least(FencesFrom(r, cs)) - 1)

\* this.extractCode(response.content[0].text)
ExtractCode ==
    /\ ~extracted.done
    /\ extracted' = [done |-> TRUE, code |-> extractCode(response)]
    /\ UNCHANGED <<session, retry, texts, ops, hist, life, lastSent, rec, chan,
                   response, sectionKeys, targets>>

\* a response of the completion service arrives and its code is extracted
InitExtract ==
    /\ Idle
    /\ response \in Responses
    /\ sectionKeys = {}

NextExtract == ExtractCode

SpecExtract == InitExtract /\ [][NextExtract]_vars

\* the fenced blocks of a response: its fences taken in pairs, opening and
\* closing
FencePositions(r) == FencesFrom(r, 1)
NthFence(r, n) ==
    CHOOSE j \in FencePositions(r) :
        Cardinality({k \in FencePositions(r) : k <= j}) = n
BlockCount(r) == Cardinality(FencePositions(r)) \div 2
\* the blocks whose opening fence carries a listed tag or none
ListedBlocks(r) ==
    {b \in 1..BlockCount(r) : ContentStart(r, NthFence(r, 2 * b - 1)) # 0}
Interior(r, b) ==
    SubSeq(r, ContentStart(r, NthFence(r, 2 * b - 1)), NthFence(r, 2 * b) - 1)

\* C23: extractCode returns the interior of the first fenced block whose tag
\* is javascript, js, strudel or none, verbatim and untrimmed, when the
\* response has such a block, and the whole response verbatim otherwise
C23_FirstBlockVerbatim ==
    extracted.done =>
        extracted.code = IF ListedBlocks(response) = {}
                         THEN response
                         ELSE Interior(response, Least(ListedBlocks(response)))

(* --------------------------- validation pass -------------------------- *)
\* the validate-and-correct call of request g returns or fails in this step
ValidationOver(g) ==
    /\ g.stage = "validate"
    /\ CopiesIn(g, gens') < CopiesIn(g, gens)

\* the request g after its validation pass, waiting for the file write
Accepted(g) == Gen(g.via, g.fb, "write", 0)

\* C24: when the validation pass of a request is over, failed or not, the
\* request goes on: this.pattern is the extracted text the pass was given or
\* a corrected text nobody held before, it is broadcast, and the request
\* proceeds to its tail
C24_ValidationFailureAccepted ==
    [][ \A g \in BagToSet(gens) :
          ValidationOver(g)
            => /\ CopiesIn(Accepted(g), gens') > CopiesIn(Accepted(g), gens)
               /\ pattern' # 0
               /\ pattern' = g.pat \/ pattern' \notin LiveTexts
               /\ lastSent' = pattern' ]_vars

\* C24 witness: the validation pass of the top-level request has failed and
\* the request goes on with text 1, the text extracted from its completion
\* (a corrected text would be a later one)
C24_Witness ==
    /\ Has(gens, Gen("top", NULL, "write", 0))
    /\ pattern = 1
    /\ lastSent = 1

(* ------------------------ browser interactions ------------------------ *)
\* the install of refinement step p is over in this step
InstallOver(p) ==
    /\ p.st = "install"
    /\ CopiesIn(p, pipes') < CopiesIn(p, pipes)

\* an autoplay ends in this step at a failed interaction: no frame, or a
\* browser action that throws, before the install or at the play control
AutoplayFailed ==
    /\ BagCardinality(autoplays') < BagCardinality(autoplays)
    /\ recordTimers' = recordTimers

\* a local repair ends in this step at a failed interaction
RepairFailed ==
    /\ BagCardinality(repairs') < BagCardinality(repairs)
    /\ recordTimers' = recordTimers

\* what is scheduled or suspended apart from the browser interactions
Scheduled == <<retryTimers, autoplayTimers, refineTimers, gens, pipes>>

C26_BroadcastOnlyToOpen ==
    [][ \A o \in Observers :
          inbox'[o] # inbox[o] => started /\ clients'[o] = "open" ]_vars

\* C26 witness: a log message was broadcast while one observer's socket was
\* open and the other's was closing; only the first has received it
C26_Witness ==
    \E o, q \in Observers :
        /\ clients[o] = "open"
        /\ clients[q] = "closing"
        /\ Msg("log", NULL) \in inbox[o]
        /\ Msg("log", NULL) \notin inbox[q]

(* ------------------------------- retries ------------------------------ *)
\* retryWithErrorFeedback runs in this step
RetryIssued == regenCalls' = regenCalls + 1

\* the generation request g is issued in this step
Issued(g) == CopiesIn(g, gens') > CopiesIn(g, gens)

\* C27: a retry broadcasts retryUpdate with the incremented count and calls
\* generatePattern with the text of the runtime error that was stored when
\* the retry was scheduled as its error feedback, never without one
C27_RetryCarriesError ==
    [][ RetryIssued
          => /\ \A o \in Observers :
                  clients[o] = "open"
                    => Msg("retryUpdate", retryCount + 1) \in inbox'[o]
             /\ lastError # NULL
             /\ Issued(Gen("retry", lastError, "completion", 0)) ]_vars

(* ---------------------------- error reports --------------------------- *)
\* a local repair or a retry is started in this step
RecoveryStarted ==
    \/ BagCardinality(repairs') > BagCardinality(repairs)
    \/ retryTimers' > retryTimers

\* C28: in the step in which the handler accepts a runtime error, the text is
\* stored as lastError and every connected observer has an `error` message
\* with that text, whether a repair, a retry or nothing follows; and a repair
\* or a retry only ever starts in such a step
C28_ErrorStoredAndBroadcast ==
    [][ /\ ErrorReported
             => /\ IsReportedError(lastError')
                /\ \A o \in Observers :
                     clients[o] = "open" => Msg("error", lastError') \in inbox'[o]
        /\ RecoveryStarted => ErrorReported ]_vars

\* C28 witness: the retry budget is used up, no repair and no retry is
\* pending, and the error reported last is still stored and was broadcast
C28_Witness ==
    /\ retryCount >= maxRetries
    /\ retryTimers = 0
    /\ repairs = EmptyBag
    /\ lastError = KickError
    /\ \E o \in Observers :
         clients[o] = "open" /\ Msg("error", KickError) \in inbox[o]

(* ------------------------------- kaizen ------------------------------- *)
Range(q) == {q[i] : i \in 1..Len(q)}

\* the place of a canonical section name in (intro, verse, chorus, bridge, outro)
Position(s) == CHOOSE i \in 1..Len(sections) : sections[i] = s

\* C29: once the song structure is known, the Kaizen worklist holds exactly
\* the canonical section names that are keys of songStructure, each once and
\* in canonical order, and every Kaizen step of a pipeline works on an entry
\* of that list: keys such as verse1, chorus1 or drop1 add no step
C29_KaizenWorklist ==
    songStructure # NULL =>
        LET w    == Worklist("kaizen")
            keys == commonStructures(songStructure)
        IN  /\ Range(w) = Range(sections) \cap keys
            /\ \A i, j \in 1..Len(w) : i < j => Position(w[i]) < Position(w[j])
            /\ \A p \in BagToSet(pipes) :
                 p.ph = "kaizen" /\ p.st \in {"gen", "install", "wait"}
                   => p.i \in 1..Cardinality(Range(sections) \cap keys)

\* C29 witness: for the pop structure the worklist is intro, bridge, outro
\* and a pipeline is refining the last of them
C29_Witness ==
    /\ songStructure = "pop"
    /\ Worklist("kaizen") = <<"intro", "bridge", "outro">>
    /\ Has(pipes, Pipe("kaizen", 3, "gen"))

\* a pipeline is pausing at p in Kaizen
KaizenPause(p) == p.ph = "kaizen" /\ p.st \in {"wait", "dwell"}

\* surgeryMode() begins in this step
SurgeryBegins ==
    CopiesIn(Pipe("surgery", 1, "gen"), pipes') > CopiesIn(Pipe("surgery", 1, "gen"), pipes)

\* the pause of Kaizen before Surgery ends in this step
KaizenDwellEnds ==
    \E p \in BagToSet(pipes) :
        /\ p.ph = "kaizen"
        /\ p.st = "dwell"
        /\ CopiesIn(p, pipes') < CopiesIn(p, pipes)

\* C30 as stated: a pipeline pauses in Kaizen only with a further section
\* ahead, so that after the last section Surgery begins with no pause
C30_NoPauseAfterLastSection ==
    \A p \in BagToSet(pipes) :
        KaizenPause(p) => p.i < Len(Worklist("kaizen"))

\* C30 amended: the 10 s wait of Kaizen occurs only with a further section
\* ahead; after the last section the pipeline takes no such wait but the one
\* 15 s pause of Kaizen, and Surgery begins only when that pause ends
C30_PauseBeforeSurgery ==
    /\ [](\A p \in BagToSet(pipes) :
            /\ p.ph = "kaizen" /\ p.st = "wait" => p.i < Len(Worklist("kaizen"))
            /\ p.ph = "kaizen" /\ p.st = "dwell" => p.i = Len(Worklist("kaizen")))
    /\ [][SurgeryBegins => KaizenDwellEnds]_vars

\* C30 witness: the last section of the worklist is done and the pipeline is
\* in the pause before Surgery, still in kaizen mode
C30_Witness ==
    /\ currentMode = "kaizen"
    /\ Len(Worklist("kaizen")) > 0
    /\ Has(pipes, Pipe("kaizen", Len(Worklist("kaizen")), "dwell"))

(* --------------------------- surgery targets -------------------------- *)
\* the keys a structure object may have: the four the target list looks at
\* and some it does not
SectionKeys == {"intro", "verse", "chorus", "outro", "verse1", "chorus1", "bridge"}

\* const surgeryTargets = this.identifySurgeryTargets()
IdentifyTargets ==
    /\ ~targets.done
    /\ targets' = [done |-> TRUE, list |-> surgeryTargets(sectionKeys)]
    /\ UNCHANGED <<session, retry, texts, ops, hist, life, lastSent, rec, chan,
                   response, extracted, sectionKeys>>

\* surgeryMode() is entered with some structure object
InitSurgery ==
    /\ Idle
    /\ response = <<>>
    /\ sectionKeys \in SUBSET SectionKeys

NextSurgery == IdentifyTargets

SpecSurgery == InitSurgery /\ [][NextSurgery]_vars

\* the place of a target type in (transition, drums, hook, melody, effects)
TargetRank(t) ==
    CASE t = "transition" -> 1
      [] t = "drums"      -> 2
      [] t = "hook"       -> 3
      [] t = "melody"     -> 4
      [] OTHER            -> 5

\* C31: the target list is in the order transition, drums, hook, melody,
\* effects without repetition; drums and melody are always in it, transition
\* iff verse and chorus are both keys, hook iff intro is, effects iff outro
\* is; no other key matters
C31_SurgeryTargets ==
    targets.done =>
        LET t   == targets.list
            has == {t[i] : i \in 1..Len(t)}
        IN  /\ \A i, j \in 1..Len(t) : i < j => TargetRank(t[i]) < TargetRank(t[j])
            /\ has \subseteq {"transition", "drums", "hook", "melody", "effects"}
            /\ "drums" \in has
            /\ "melody" \in has
            /\ "transition" \in has <=> ("verse" \in sectionKeys /\ "chorus" \in sectionKeys)
            /\ "hook" \in has <=> "intro" \in sectionKeys
            /\ "effects" \in has <=> "outro" \in sectionKeys

\* C31 witness: for a structure with a verse but no chorus, no intro and an
\* outro, the list is drums, melody, effects
C31_Witness ==
    /\ targets.done
    /\ sectionKeys = {"verse", "verse1", "outro"}
    /\ targets.list = <<"drums", "melody", "effects">>

(* -------------------------- play and recording ------------------------ *)
\* some observer receives its first autoplayStarted in this step
AutoplayStartedSent ==
    \E o \in Observers :
        /\ Msg("autoplayStarted", NULL) \in inbox'[o]
        /\ Msg("autoplayStarted", NULL) \notin inbox[o]

\* a recording is started in this step, and not by an observer's message
StartedByPlayPath ==
    /\ ~isRecording
    /\ isRecording'
    /\ messages' = messages

\* C32: the recording timer is set, autoplayStarted is broadcast and a
\* recording is started by the play path only when a click on the play
\* control has succeeded; the Space fallback and a failed autoplay or repair
\* lead to none of them
C32_StartedOnlyAfterClick ==
    [][ /\ recordTimers' > recordTimers => clicked'
        /\ AutoplayStartedSent => clicked
        /\ StartedByPlayPath => clicked ]_vars

\* C32 witness: after a click on the play control an observer has received
\* autoplayStarted and the recording has begun
C32_Witness ==
    /\ clicked
    /\ isRecording
    /\ \E o \in Observers : Msg("autoplayStarted", NULL) \in inbox[o]

(* --------------------------- the Kaizen board -------------------------- *)
\* the session, the refinement pipeline and the observers who watch it
NextBoard ==
    \/ \E ok \in BOOLEAN : Start(ok)
    \/ \E o \in Observers : ObserverConnect(o)
    \/ \E artist \in AllArtists : TopLevelRequest(artist)
    \/ \E g \in BagToSet(gens), ok \in BOOLEAN : GenComplete(g, ok)
    \/ \E g \in BagToSet(gens), ok \in BOOLEAN : GenValidate(g, ok)
    \/ \E g \in BagToSet(gens) : GenWritten(g)
    \/ RefineFire
    \/ \E p \in BagToSet(pipes), ok \in BOOLEAN : PipeGenerated(p, ok)
    \/ \E p \in BagToSet(pipes), ok \in BOOLEAN : PipeInstalled(p, ok)
    \/ \E p \in BagToSet(pipes) : PipeTimer(p)

SpecBoard == Init /\ [][NextBoard]_vars

\* list a is list b or a beginning of it
IsPrefix(a, b) == Len(a) <= Len(b) /\ SubSeq(b, 1, Len(a)) = a

\* the Kaizen boards an observer has received
Boards(o) ==
    {m.data.kanban : m \in {n \in inbox[o] : /\ n.type = "visualizationUpdate"
                                             /\ n.data.mode = "kaizen"}}

\* the three lists of a board partition the worklist, at most one section is
\* in progress, and done is a beginning of the worklist
BoardOK(k) ==
    LET w == availableSections(songStructure)
    IN  /\ Range(k.todo) \cap Range(k.inProgress) = {}
        /\ Range(k.todo) \cap Range(k.done) = {}
        /\ Range(k.inProgress) \cap Range(k.done) = {}
        /\ Range(k.todo) \cup Range(k.inProgress) \cup Range(k.done) = Range(w)
        /\ Len(k.todo) + Len(k.inProgress) + Len(k.done) = Len(w)
        /\ Len(k.inProgress) <= 1
        /\ IsPrefix(k.done, w)

\* C33: every Kaizen board that is broadcast has todo, inProgress and done
\* pairwise disjoint with the whole worklist as their union and at most one
\* section in progress, and the done list of a board extends the done list of
\* every board sent before it, in worklist order
C33_KanbanSnapshots ==
    [][\A o \in Observers :
          \A k \in Boards(o)' \ Boards(o) :
             /\ BoardOK(k)'
             /\ \A before \in Boards(o) : IsPrefix(before.done, k.done)]_vars

\* an observer has seen a board with a section in progress behind two done
\* ones and the board after the last section
C33_Witness ==
    \E o \in Observers :
       /\ \E k \in Boards(o) : Len(k.done) >= 2 /\ Len(k.inProgress) = 1
       /\ \E k \in Boards(o) : Len(k.done) >= 3 /\ k.todo = <<>>
                               /\ k.inProgress = <<>>

(* ------------------------- a second request --------------------------- *)
MaxPipelines == 2     \* generations, refinement timers and pipelines in SpecTwice

\* generatePattern() called again on the instance by its owner: a further
\* top-level request, issued while fewer than MaxPipelines generations,
\* refinement timers and pipelines exist
TopLevelAgain(artist) ==
    /\ started
    /\ requested
    /\ BagCardinality(gens) + refineTimers + BagCardinality(pipes) < MaxPipelines
    /\ generatePattern("top", artist, NULL, retryCount, {})
    /\ UNCHANGED <<started, page, songStructure, currentMode, lastError,
                   retryTimers, regenCalls, texts, autoplayTimers, refineTimers,
                   autoplays, repairs, pipes, hist, life, lastSent, clients,
                   parse, rec>>

\* the requests of the owner and the refinement pipelines they lead to
NextTwice ==
    \/ \E ok \in BOOLEAN : Start(ok)
    \/ \E artist \in Artists : TopLevelRequest(artist)
    \/ \E artist \in Artists : TopLevelAgain(artist)
    \/ \E g \in BagToSet(gens), ok \in BOOLEAN : GenComplete(g, ok)
    \/ \E g \in BagToSet(gens), ok \in BOOLEAN : GenValidate(g, ok)
    \/ \E g \in BagToSet(gens) : GenWritten(g)
    \/ RefineFire
    \/ \E p \in BagToSet(pipes), ok \in BOOLEAN : PipeGenerated(p, ok)
    \/ \E p \in BagToSet(pipes), ok \in BOOLEAN : PipeInstalled(p, ok)
    \/ \E p \in BagToSet(pipes) : PipeTimer(p)

SpecTwice == Init /\ [][NextTwice]_vars

\* pipelines begun by startMultiPassRefinement that have not reached the
\* end of surgeryMode
ActivePipelines ==
    [p \in {x \in BagToSet(pipes) : x.ph # "complete"} |-> pipes[p]]

\* C34: at most one refinement pipeline is active, also when a second
\* top-level generatePattern is issued while a pipeline runs or before the
\* first one has started
C34_OnePipelineActive == BagCardinality(ActivePipelines) <= 1

(* --------------------------- start against stop ----------------------- *)
\* the last recording call was a stopRecording() and every stopRecording()
\* call has returned: no start was requested since that call was made
StoppedLast == lastReq = "stop" /\ stops = EmptyBag

\* C35: after a stopRecording() has completed with no start requested after
\* it, no capture process runs, this.recordProcess is null and isRecording is
\* false, also when the stop arrived while a start was awaiting its capture
C35_StoppedMeansNoCapture ==
    StoppedLast => (~isRecording /\ ~recordProcess /\ captures = 0)

\* a startRecording() call returns in this step: it has broadcast
\* recordingStarted
StartedSent == BagCardinality(starts') < BagCardinality(starts)

\* a stopRecording() call returns in this step: it has broadcast
\* recordingStopped
StoppedSent == BagCardinality(stops') < BagCardinality(stops)

\* C36: recordingStarted and recordingStopped alternate on the channel,
\* beginning with recordingStarted: recordingStopped is sent only when the
\* last recording message was recordingStarted, and recordingStarted only
\* when it was not
C36_StartedStoppedAlternate ==
    [][ /\ StoppedSent => lastRecMsg = "recordingStarted"
        /\ StartedSent => lastRecMsg # "recordingStarted" ]_vars

\* C37: an auto-stop timer never outlives the recording that armed it: when
\* a timer is pending it is the only one, this.recordingTimeout refers to it
\* and the recording it belongs to is in progress
C37_TimerOfCurrentRecording ==
    autoStops > 0 => (autoStops = 1 /\ timeoutLive /\ isRecording)

(* ------------------------ a start before the song --------------------- *)
\* what follows the rejection of a promise nobody awaits: the process is
\* terminated (the default of current Node.js), or a warning is printed and
\* the process goes on (older Node.js, --unhandled-rejections=warn)
RejectionOutcomes == {"crash", "warn"}

\* ws.on('message'): { type: 'startRecording' } from an observer before the
\* first generatePattern: startRecording() sets isRecording and then throws
\* at this.currentSong.replace, currentSong being null; the handler neither
\* awaits nor catches the call
ObserverStartEarly(outcome) ==
    /\ started
    /\ ~closed
    /\ currentArtist = NULL
    /\ messages < MaxMessages
    /\ messages' = messages + 1
    /\ lastReq' = "start"
    /\ IF isRecording
       THEN /\ outcome = "warn"
            /\ UNCHANGED <<isRecording, closed>>
       ELSE /\ isRecording' = TRUE
            /\ closed' = (outcome = "crash")
    /\ UNCHANGED <<session, retry, texts, ops, hist, stopped, lastSent, chan,
                   parse, recordTimers, recordProcess, captures, timeoutLive,
                   autoStops, starts, stops, lastRecMsg, audio>>

\* the observers' recording messages from the moment the server listens,
\* the request, and the captures and stops the messages lead to
NextEarly ==
    \/ \E ok \in BOOLEAN : Start(ok)
    \/ \E outcome \in RejectionOutcomes : ObserverStartEarly(outcome)
    \/ \E artist \in Artists : TopLevelRequest(artist)
    \/ \E g \in BagToSet(gens), ok \in BOOLEAN : GenComplete(g, ok)
    \/ \E g \in BagToSet(gens), ok \in BOOLEAN : GenValidate(g, ok)
    \/ \E g \in BagToSet(gens) : GenWritten(g)
    \/ ObserverStartRecording
    \/ ObserverStopRecording
    \/ \E outcome \in CaptureOutcomes : CaptureLaunched(outcome)
    \/ PlaceholderWritten
    \/ \E held \in BOOLEAN : AutoStopFire(held)
    \/ \E c \in BagToSet(stops) : StopFinalized(c)
    \/ \E c \in BagToSet(stops), ok \in BOOLEAN : StopCopied(c, ok)

SpecEarly == Init /\ [][NextEarly]_vars

\* an observer's startRecording message is handled in this step while the
\* session has no identity yet
EarlyStartHandled ==
    currentArtist = NULL /\ messages' = messages + 1 /\ lastReq' = "start"

\* C38: a startRecording request that arrives before any session identity
\* exists leaves the recording state as it was: isRecording is not left true
\* without a capture, and the instance goes on serving later requests
C38_EarlyStartLeavesNoTrace ==
    [][ EarlyStartHandled => (isRecording' = isRecording /\ closed' = closed) ]_vars

(* ------------------------- what a newcomer gets ----------------------- *)
\* observer o connects in this step
Connects(o) == clients[o] = "none" /\ clients'[o] = "open"

\* C39: an observer that connects when a pattern exists has received, once
\* the connection handler has run, exactly one message, a `pattern` message
\* carrying the current this.pattern; an observer that connects before any
\* pattern exists has received nothing
C39_NewcomerGetsPattern ==
    [][ \A o \in Observers :
          Connects(o) =>
             inbox'[o] = IF pattern' # 0 THEN {Msg("pattern", pattern')} ELSE {} ]_vars

\* an observer who connected after a refinement step had replaced the
\* pattern holds the refined text, which was never broadcast as `pattern`
C39_Witness ==
    \E o \in Observers :
       /\ clients[o] = "open"
       /\ pattern # 0
       /\ pattern # lastSent
       /\ Msg("pattern", pattern) \in inbox[o]

====
